---------------------------- MODULE Spec2Model ----------------------------
(***************************************************************************)
(* Discussion bans of edx/forum: the DiscussionBan / DiscussionBanException *)
(* / ModerationAuditLog tables, the ban_user and unban_user API functions   *)
(* (forum/api/bans.py) and the scope resolver DiscussionBan.is_user_banned  *)
(* (forum/backends/mysql/models.py).                                        *)
(***************************************************************************)
EXTENDS Integers, Sequences, FiniteSets, TLC

\* ------------------------------------------------------------------ bounds
\* Number of audit log entries (= successful API calls) explored.
MaxLog == 3

\* ------------------------------------------------------------ input values
\* Python None, for every nullable string / foreign key field or argument.
None == "None"

\* Users that get banned.
Users == {"u1"}

\* Course keys: "course-v1:<org>+<course>+<run>", shortened to "<org>+<course>".
Courses == {"O1+C1", "O1+C2", "O2+C3"}

\* Organization keys.
Orgs == {"O1", "O2"}

\* CourseKey.from_string(course_id).org: the organization segment of the key.
CourseKeyOrg(course_id) ==
    CASE course_id = "O1+C1" -> "O1"
      [] course_id = "O1+C2" -> "O1"
      [] course_id = "O2+C3" -> "O2"

\* The (banned_by, reason) pairs ban_user is called with.
Callers == {<<"m1", "">>, <<"m2", "spam">>}

\* The (unbanned_by, reason) pairs unban_user is called with; reason is left
\* at its default.
Unbanners == {<<"m2", "">>}

\* The user accounts: the users that get banned and the moderators.
AllUsers == Users \cup {c[1] : c \in Callers \cup Unbanners}

\* ------------------------------------------------------------------- state
VARIABLES
    bans,        \* rows of discussion_user_ban
    exceptions,  \* rows of discussion_ban_exception
    audit_log,   \* rows of ModerationAuditLog, in insertion order
    now,         \* timezone.now(), a logical clock
    result,      \* what the last API call returned or raised
    txn,         \* the open transaction.atomic() block of a call, if any
    users,       \* rows of auth_user
    procs,       \* the concurrent ban_user calls, each at its step
    mute,        \* the mute_and_report_user call and what it returned
    ai,          \* the moderate_and_flag_content call and what it returned
    mongo        \* the MongoDB comment store: a thread and its comments

vars == <<bans, exceptions, audit_log, now, result, txn, users, procs, mute, ai,
          mongo>>

\* The state of the calls modelled by steps of their own.
call_vars == <<procs, mute, ai, mongo>>

\* The processes serving concurrent requests.
Procs == {"p1", "p2"}

\* No concurrent call is running.
NoProcs == [p \in Procs |-> [pc |-> "idle"]]

\* No mute_and_report_user call was made.
NoMute == [pc |-> "idle"]

\* No moderate_and_flag_content call was made.
NoAI == [pc |-> "idle"]

\* The MongoDB comment store is not in use.
NoMongo == [thread |-> None]

\* The tables and the last result, without the open transaction.
ban_vars == <<bans, exceptions, audit_log, now, result>>

\* No transaction is open.
NoTxn == [open |-> FALSE]

\* The value of `result.ban` when a call returns no ban.
NoBan == [id |-> 0]

\* ----------------------------------------------------------------- helpers
\* AutoField primary key of the next inserted row.
NextId(rows) ==
    IF rows = {} THEN 1
    ELSE (CHOOSE i \in {r.id : r \in rows} : \A r \in rows : r.id <= i) + 1

\* `reason or default` of Python: the empty string is falsy.
OrDefault(reason, default) == IF reason = "" THEN default ELSE reason

\* Mutant of UniqueActiveBan: the constraints without their condition, unique
\* over all rows.
UniqueBanAnyState(rows) ==
    \A a \in rows : \A b \in rows :
        (a.id # b.id /\ a.user = b.user /\ a.scope = b.scope)
        => /\ (a.scope = "course" /\ a.course_id # None)
                 => a.course_id # b.course_id
           /\ (a.scope = "organization" /\ a.org_key # None)
                 => a.org_key # b.org_key

\* Meta.constraints of DiscussionBan: unique (user, course_id) over the rows
\* with is_active and scope = 'course', unique (user, org_key) over the rows
\* with is_active and scope = 'organization'.  SQL NULLs never collide.
UniqueActiveBan(rows) ==
    \A a \in rows : \A b \in rows :
        (a.id # b.id /\ a.user = b.user /\ a.is_active /\ b.is_active
         /\ a.scope = b.scope)
        => /\ (a.scope = "course" /\ a.course_id # None)
                 => a.course_id # b.course_id
           /\ (a.scope = "organization" /\ a.org_key # None)
                 => a.org_key # b.org_key

\* Meta.constraints of DiscussionBanException: unique (ban, course_id).
UniqueBanException(rows) ==
    \A a \in rows : \A b \in rows :
        (a.ban = b.ban /\ a.course_id = b.course_id) => a.id = b.id

\* _serialize_ban: the fields of the row, as returned to the caller.
SerializeBan(ban) == ban

\* ModerationAuditLog.objects.create(...) of ban_user / unban_user.
AuditEntry(action_type, target_user, moderator, course_id, scope, reason, metadata) ==
    [action_type |-> action_type, source |-> "human", target_user |-> target_user,
     moderator |-> moderator, course_id |-> course_id, scope |-> scope,
     reason |-> reason, metadata |-> metadata, moderator_override |-> FALSE,
     override_reason |-> None]

\* Mutant of AuditLogCreate: the entry is not written.
AuditLogSkip(entry) == audit_log

\* ModerationAuditLog.objects.create: the table with the entry appended.
AuditLogCreate(entry) == Append(audit_log, entry)

\* The outcome of a call that raised: the transaction is rolled back and
\* nothing is written.
Raise(op, error) ==
    [bans |-> bans, exceptions |-> exceptions, audit_log |-> audit_log,
     now |-> now,
     result |-> [op |-> op, status |-> "error", error |-> error, ban |-> NoBan,
                 reactivated |-> FALSE, exception_created |-> FALSE,
                 exception |-> 0]]

\* The outcome of a call that returned: the tables as committed and the
\* value returned.  A write that breaks a uniqueness constraint raises
\* IntegrityError instead and the transaction is rolled back.
Return(op, new_bans, new_exceptions, entry, ban, reactivated, exc_created, exc) ==
    IF ~(UniqueActiveBan(new_bans) /\ UniqueBanException(new_exceptions))
    THEN Raise(op, "IntegrityError")
    ELSE
    [bans |-> new_bans, exceptions |-> new_exceptions,
     audit_log |-> AuditLogCreate(entry), now |-> now + 1,
     result |-> [op |-> op, status |-> "success", error |-> None,
                 ban |-> SerializeBan(ban), reactivated |-> reactivated,
                 exception_created |-> exc_created, exception |-> exc]]

\* --------------------------------------------------------------- resolver
\* Mutant of is_user_banned: the organization ban lookup without is_active.
is_user_banned_any_org_ban(user, course_id, check_org) ==
    LET org_name == CourseKeyOrg(course_id)
        org_bans == {b \in bans : /\ b.user = user
                                  /\ b.org_key = org_name
                                  /\ b.scope = "organization"}
        course_banned == \E b \in bans : /\ b.user = user
                                         /\ b.course_id = course_id
                                         /\ b.scope = "course"
                                         /\ b.is_active
    IN  IF check_org /\ org_bans # {}
        THEN LET org_ban == CHOOSE b \in org_bans :
                                \A o \in org_bans : b.id <= o.id
             IN  IF \E e \in exceptions : e.ban = org_ban.id /\ e.course_id = course_id
                 THEN FALSE
                 ELSE TRUE
        ELSE course_banned

\* Mutant of is_user_banned: any exception of the ban lifts it everywhere.
is_user_banned_any_exception(user, course_id, check_org) ==
    LET org_name == CourseKeyOrg(course_id)
        org_bans == {b \in bans : /\ b.user = user
                                  /\ b.org_key = org_name
                                  /\ b.scope = "organization"
                                  /\ b.is_active}
        course_banned == \E b \in bans : /\ b.user = user
                                         /\ b.course_id = course_id
                                         /\ b.scope = "course"
                                         /\ b.is_active
    IN  IF check_org /\ org_bans # {}
        THEN LET org_ban == CHOOSE b \in org_bans :
                                \A o \in org_bans : b.id <= o.id
             IN  IF \E e \in exceptions : e.ban = org_ban.id
                 THEN FALSE
                 ELSE TRUE
        ELSE course_banned

\* Mutant of is_user_banned: the exceptions of the organization ban are not
\* read.
is_user_banned_ignoring_exceptions(user, course_id, check_org) ==
    \/ check_org /\ \E b \in bans : /\ b.user = user
                                    /\ b.org_key = CourseKeyOrg(course_id)
                                    /\ b.scope = "organization"
                                    /\ b.is_active
    \/ \E b \in bans : /\ b.user = user
                       /\ b.course_id = course_id
                       /\ b.scope = "course"
                       /\ b.is_active

\* DiscussionBan.is_user_banned(user, course_id, check_org).
is_user_banned(user, course_id, check_org) ==
    LET org_name == CourseKeyOrg(course_id)
        org_bans == {b \in bans : /\ b.user = user
                                  /\ b.org_key = org_name
                                  /\ b.scope = "organization"
                                  /\ b.is_active}
        course_banned == \E b \in bans : /\ b.user = user
                                         /\ b.course_id = course_id
                                         /\ b.scope = "course"
                                         /\ b.is_active
    IN  IF check_org /\ org_bans # {}
        THEN LET org_ban == CHOOSE b \in org_bans :
                                \A o \in org_bans : b.id <= o.id
             IN  IF \E e \in exceptions : e.ban = org_ban.id /\ e.course_id = course_id
                 THEN FALSE
                 ELSE TRUE
        ELSE course_banned

\* get_banned_users(course_id, org_key, include_inactive, scope): the bans
\* listed (the list is ordered by banned_at, newest first).
get_banned_users(course_id, org_key, include_inactive, scope) ==
    {b \in bans :
        /\ include_inactive \/ b.is_active
        /\ scope # None => b.scope = scope
        /\ IF course_id # None
           THEN IF scope = None
                THEN \/ b.course_id = course_id
                     \/ (b.org_key = CourseKeyOrg(course_id)
                         /\ b.scope = "organization")
                ELSE scope = "course" => b.course_id = course_id
           ELSE org_key # None => b.org_key = org_key}

\* ---------------------------------------------------------------- ban_user
\* Mutant of BanLookup: a plain create, no row is looked up.
BanLookupNone(user, scope, course_key, org_key) == {}

\* Mutant of BanLookup: only active rows are looked up.
BanLookupActive(user, scope, course_key, org_key) ==
    {b \in bans : /\ b.user = user
                  /\ b.scope = scope
                  /\ b.is_active
                  /\ IF scope = "organization" THEN b.org_key = org_key
                                               ELSE b.course_id = course_key}

\* DiscussionBan.objects.get_or_create(**lookup_kwargs): the rows matching
\* the lookup (user, scope, and course_id or org_key).
BanLookup(user, scope, course_key, org_key) ==
    {b \in bans : /\ b.user = user
                  /\ b.scope = scope
                  /\ IF scope = "organization" THEN b.org_key = org_key
                                               ELSE b.course_id = course_key}

\* ban_user(user, banned_by, course_id, org_key, scope, reason): the tables
\* and the result after the call.
ban_user(user, banned_by, course_id, org_key, scope, reason) ==
    IF scope \notin {"course", "organization"}
    THEN Raise("ban_user", "ValueError: Invalid scope")
    ELSE IF scope = "course" /\ course_id = None
    THEN Raise("ban_user", "ValueError: course_id is required for course-level bans")
    ELSE IF scope = "organization" /\ org_key = None /\ course_id = None
    THEN Raise("ban_user",
               "ValueError: org_key or course_id is required for organization-level bans")
    ELSE
      LET \* course_key stays None when scope is organization and org_key is given
          course_key == IF scope = "organization" /\ org_key # None
                        THEN None ELSE course_id
          key_org == IF scope = "organization" /\ org_key # None
                     THEN org_key ELSE CourseKeyOrg(course_id)
          found == BanLookup(user, scope, course_key, key_org)
      IN
      IF Cardinality(found) > 1
      THEN Raise("ban_user", "MultipleObjectsReturned")
      ELSE
        LET created == (found = {})
            old == IF created THEN NoBan ELSE CHOOSE b \in found : TRUE
            fresh == [id |-> NextId(bans), user |-> user,
                      course_id |-> IF scope = "course" THEN course_key ELSE None,
                      org_key |-> key_org, scope |-> scope, is_active |-> TRUE,
                      banned_by |-> banned_by,
                      reason |-> OrDefault(reason, "No reason provided"),
                      banned_at |-> now, unbanned_at |-> 0, unbanned_by |-> None]
            reactivated == (~created) /\ ~old.is_active
            ban == IF created THEN fresh
                   ELSE IF reactivated
                   THEN [old EXCEPT !.is_active = TRUE, !.banned_by = banned_by,
                                    !.reason = OrDefault(reason, old.reason),
                                    !.banned_at = now, !.unbanned_at = 0,
                                    !.unbanned_by = None]
                   ELSE old
        IN
        Return("ban_user", (bans \ found) \cup {ban}, exceptions,
               AuditEntry("ban_user", user, banned_by, course_key, scope, reason,
                          [ban_id |-> ban.id, created |-> created]),
               ban, reactivated, FALSE, 0)

\* -------------------------------------------------------------- unban_user
\* Mutant of UnbanLookup: the lookup without is_active.
UnbanLookupAny(ban_id, user, course_id, scope) ==
    IF ban_id # 0
    THEN {b \in bans : b.id = ban_id}
    ELSE {b \in bans : /\ b.user = user
                       /\ (scope # None => b.scope = scope)
                       /\ ((scope = "course" /\ course_id # None)
                              => b.course_id = course_id)}

\* The active bans unban_user's lookup matches: by id when ban_id is given,
\* else by user, scope (when given) and course_id (only for scope 'course').
UnbanLookup(ban_id, user, course_id, scope) ==
    IF ban_id # 0
    THEN {b \in bans : b.id = ban_id /\ b.is_active}
    ELSE {b \in bans : /\ b.user = user
                       /\ b.is_active
                       /\ (scope # None => b.scope = scope)
                       /\ ((scope = "course" /\ course_id # None)
                              => b.course_id = course_id)}

\* Mutant of Deactivated: unbanned_by is not stamped.
DeactivatedNoModerator(ban, unbanned_by) ==
    [ban EXCEPT !.is_active = FALSE, !.unbanned_at = now]

\* The full unban of unban_user: the row with is_active cleared and the
\* unban fields stamped.
Deactivated(ban, unbanned_by) ==
    [ban EXCEPT !.is_active = FALSE, !.unbanned_at = now,
                !.unbanned_by = unbanned_by]

\* Mutant of ExceptionBranch: the scope of the ban is not looked at.
ExceptionBranchAnyScope(ban, course_id) == course_id # None

\* The branch of unban_user: an exception for an organization ban when a
\* course_id is given, a full unban otherwise.
ExceptionBranch(ban, course_id) == ban.scope = "organization" /\ course_id # None

\* Mutant of ExceptionLookup: a plain create, no row is looked up.
ExceptionLookupNone(ban, course_id) == {}

\* DiscussionBanException.objects.get_or_create(ban=ban, course_id=course_key):
\* the rows matching the lookup.
ExceptionLookup(ban, course_id) ==
    {e \in exceptions : e.ban = ban.id /\ e.course_id = course_id}

\* Mutant of DiscussionBanException_clean: the scope is not validated.
DiscussionBanException_clean_any_scope(ban) == None

\* DiscussionBanException.clean of an exception whose parent is `ban`: the
\* error it raises, None when it returns.
DiscussionBanException_clean(ban) ==
    IF ban.scope # "organization"
    THEN "ValidationError: Exceptions can only be created for organization-level bans"
    ELSE None

\* unban_user(ban_id, user, unbanned_by, course_id, scope, reason): the
\* tables and the result after the call.
unban_user(ban_id, user, unbanned_by, course_id, scope, reason) ==
    LET found == UnbanLookup(ban_id, user, course_id, scope)
    IN
    IF ban_id = 0 /\ user = None
    THEN Raise("unban_user", "ValueError: Either ban_id or user must be provided")
    ELSE IF found = {}
    THEN Raise("unban_user",
               IF ban_id # 0 THEN "ValueError: Active ban with id not found"
                             ELSE "ValueError: No active ban found for user")
    ELSE IF Cardinality(found) > 1
    THEN Raise("unban_user", "MultipleObjectsReturned")
    ELSE IF unbanned_by = None
    THEN \* moderator.username / moderator.id inside the atomic block
         Raise("unban_user", "AttributeError")
    ELSE
      LET ban == CHOOSE b \in found : TRUE
      IN
      IF ExceptionBranch(ban, course_id)
      THEN
        LET existing == ExceptionLookup(ban, course_id)
            created == (existing = {})
            exception ==
                IF created
                THEN [id |-> NextId(exceptions), ban |-> ban.id,
                      course_id |-> course_id, unbanned_by |-> unbanned_by,
                      reason |-> OrDefault(reason,
                                  "Course-level exception to organization ban")]
                ELSE CHOOSE e \in existing : TRUE
        IN
        Return("unban_user", bans, exceptions \cup {exception},
               AuditEntry("ban_exception", ban.user, unbanned_by, course_id,
                          "organization", <<"Exception to org ban: ", reason>>,
                          [ban_id |-> ban.id, exception_id |-> exception.id,
                           exception_created |-> created, org_key |-> ban.org_key]),
               ban, FALSE, TRUE, exception.id)
      ELSE
        LET unbanned == Deactivated(ban, unbanned_by)
        IN
        Return("unban_user", (bans \ {ban}) \cup {unbanned}, exceptions,
               AuditEntry("unban_user", ban.user, unbanned_by, ban.course_id,
                          ban.scope, <<"Unban: ", reason>>, [ban_id |-> ban.id]),
               unbanned, FALSE, FALSE, 0)

\* ------------------------------------------------------------- ORM insert
\* DiscussionBan.objects.create(user, course_id, org_key, scope, is_active,
\* banned_by, reason): a plain INSERT, subject to the table's constraints.
DiscussionBan_objects_create(user, course_id, org_key, scope, is_active, banned_by, reason) ==
    LET row == [id |-> NextId(bans), user |-> user, course_id |-> course_id,
                org_key |-> org_key, scope |-> scope, is_active |-> is_active,
                banned_by |-> banned_by, reason |-> reason, banned_at |-> now,
                unbanned_at |-> 0, unbanned_by |-> None]
    IN  IF ~UniqueActiveBan(bans \cup {row})
        THEN Raise("create", "IntegrityError")
        ELSE [bans |-> bans \cup {row}, exceptions |-> exceptions,
              audit_log |-> audit_log, now |-> now + 1,
              result |-> [op |-> "create", status |-> "success", error |-> None,
                          ban |-> SerializeBan(row), reactivated |-> FALSE,
                          exception_created |-> FALSE, exception |-> 0]]

\* ----------------------------------------------------------- specification
\* The arguments ban_user is called with.  With a scope that is neither
\* 'course' nor 'organization' the call reads no other argument.
BanArgs ==
    [user : Users, caller : Callers, course_id : Courses \cup {None},
     org_key : Orgs \cup {None}, scope : {"course", "organization"}]
    \cup [user : Users, caller : Callers, course_id : {None}, org_key : {None},
          scope : {"site"}]

\* The arguments unban_user is called with: a ban_id (user and scope are
\* then not read), or a user, or neither.
UnbanArgs ==
    [ban_id : 1 .. MaxLog, user : {None}, caller : Unbanners,
     course_id : Courses \cup {None}, scope : {None}]
    \cup [ban_id : {0}, user : Users \cup {None}, caller : Unbanners,
          course_id : Courses \cup {None},
          scope : {None, "course", "organization"}]

\* ban_user applied to a record of arguments.
BanCall(a) ==
    ban_user(a.user, a.caller[1], a.course_id, a.org_key, a.scope, a.caller[2])

\* unban_user applied to a record of arguments.
UnbanCall(a) ==
    unban_user(a.ban_id, a.user, a.caller[1], a.course_id, a.scope, a.caller[2])

\* The call's outcome becomes the state.
Commit(out) ==
    /\ bans' = out.bans
    /\ exceptions' = out.exceptions
    /\ audit_log' = out.audit_log
    /\ now' = out.now
    /\ result' = out.result

\* The empty tables, before any call.
InitTables ==
    /\ bans = {}
    /\ exceptions = {}
    /\ audit_log = <<>>
    /\ now = 1
    /\ result = [op |-> "none", status |-> "none", error |-> None, ban |-> NoBan,
                 reactivated |-> FALSE, exception_created |-> FALSE,
                 exception |-> 0]
    /\ txn = NoTxn
    /\ users = AllUsers

Init ==
    /\ InitTables
    /\ procs = NoProcs
    /\ mute = NoMute
    /\ ai = NoAI
    /\ mongo = NoMongo

BanUser ==
    /\ Len(audit_log) < MaxLog
    /\ \E out \in {BanCall(a) : a \in BanArgs} : Commit(out)
    /\ UNCHANGED <<txn, users, call_vars>>

UnbanUser ==
    /\ Len(audit_log) < MaxLog
    /\ \E out \in {UnbanCall(a) : a \in UnbanArgs} : Commit(out)
    /\ UNCHANGED <<txn, users, call_vars>>

Next == BanUser \/ UnbanUser

Spec == Init /\ [][Next]_vars

\* ------------------------------------------------- the transaction, by steps
\* ban_user and unban_user run their writes inside `with transaction.atomic()`:
\* the ban / exception write first, the ModerationAuditLog write second.  The
\* steps below stop between the two writes; the audit write then succeeds,
\* and the block commits, or raises, and the exception leaves the block.

\* Number of audit log entries explored step by step.
MaxTxnLog == 3

\* The calls explored step by step.
TxnBanArgs ==
    {a \in BanArgs : /\ a.caller[1] = "m1"
                     /\ a.course_id \in {None, "O1+C1"}
                     /\ a.org_key \in {None, "O1"}}

TxnUnbanArgs ==
    {a \in UnbanArgs : a.ban_id \in 1 .. 2 /\ a.course_id \in {None, "O1+C1"}}

\* Mutant of AuditFailure: the audit write is best-effort, the exception is
\* swallowed and the block commits the ban / exception write alone.
AuditFailureSwallowed(out) ==
    [out EXCEPT !.audit_log = audit_log]

\* ModerationAuditLog.objects.create raises inside the atomic block: nothing
\* catches the exception, it leaves the block, the block rolls back the ban /
\* exception write, and the call raises.
AuditFailure(out) == Raise(out.result.op, "DatabaseError")

\* A call runs up to its audit write.  A call that raises before it has
\* written nothing and ends here.
TxnStart(out) ==
    IF out.result.status = "error"
    THEN Commit(out) /\ UNCHANGED <<txn, users, call_vars>>
    ELSE txn' = [open |-> TRUE, out |-> out] /\ UNCHANGED <<ban_vars, users, call_vars>>

TxnBanUser ==
    /\ ~txn.open
    /\ Len(audit_log) < MaxTxnLog
    /\ \E out \in {BanCall(a) : a \in TxnBanArgs} : TxnStart(out)

TxnUnbanUser ==
    /\ ~txn.open
    /\ Len(audit_log) < MaxTxnLog
    /\ \E out \in {UnbanCall(a) : a \in TxnUnbanArgs} : TxnStart(out)

\* The audit write succeeds and the block commits both writes.
TxnAuditWrite ==
    /\ txn.open
    /\ Commit(txn.out)
    /\ txn' = NoTxn
    /\ UNCHANGED <<users, call_vars>>

\* The audit write raises.
TxnAuditFail ==
    /\ txn.open
    /\ Commit(AuditFailure(txn.out))
    /\ txn' = NoTxn
    /\ UNCHANGED <<users, call_vars>>

NextTxn == TxnBanUser \/ TxnUnbanUser \/ TxnAuditWrite \/ TxnAuditFail

SpecTxn == Init /\ [][NextTxn]_vars

\* ------------------------------------------- deletions and the admin site
\* Number of audit log entries explored together with deletions.
MaxAdminLog == 2

\* The calls explored together with deletions: on accounts that exist.
AdminBanArgs ==
    {a \in TxnBanArgs : a.user \in users /\ a.caller[1] \in users}

AdminUnbanArgs ==
    {a \in TxnUnbanArgs : a.caller[1] \in users}

\* What an operation that is not an API call leaves in `result`.
Done(op, ban, exc) ==
    [op |-> op, status |-> "success", error |-> None, ban |-> ban,
     reactivated |-> FALSE, exception_created |-> FALSE, exception |-> exc]

\* on_delete=SET_NULL: a foreign key to a deleted account becomes NULL.
SetNull(user, deleted) == IF user = deleted THEN None ELSE user

\* Mutant of ExceptionsOnBanDelete: the foreign key does not cascade.
ExceptionsKeptOnBanDelete(ids) == exceptions

\* DiscussionBanException.ban, on_delete=CASCADE: the exceptions left when the
\* bans with the given ids are deleted.
ExceptionsOnBanDelete(ids) == {e \in exceptions : e.ban \notin ids}

\* Mutant of AuditLogOnUserDelete: the moderator key cascades as well.
AuditLogOnUserDeleteCascade(u) ==
    LET RECURSIVE Keep(_)
        Keep(log) ==
            IF log = <<>> THEN <<>>
            ELSE IF Head(log).target_user = u \/ Head(log).moderator = u
                 THEN Keep(Tail(log))
                 ELSE <<Head(log)>> \o Keep(Tail(log))
    IN  Keep(audit_log)

\* ModerationAuditLog.target_user / original_author, on_delete=CASCADE, and
\* ModerationAuditLog.moderator, on_delete=SET_NULL: the audit log left when
\* the account u is deleted.
AuditLogOnUserDelete(u) ==
    LET RECURSIVE Keep(_)
        Keep(log) ==
            IF log = <<>> THEN <<>>
            ELSE IF Head(log).target_user = u
                 THEN Keep(Tail(log))
                 ELSE <<[Head(log) EXCEPT !.moderator = SetNull(@, u)]>>
                      \o Keep(Tail(log))
    IN  Keep(audit_log)

AdminBanUser ==
    /\ Len(audit_log) < MaxAdminLog
    /\ \E out \in {BanCall(a) : a \in AdminBanArgs} : Commit(out)
    /\ UNCHANGED <<txn, users, call_vars>>

AdminUnbanUser ==
    /\ Len(audit_log) < MaxAdminLog
    /\ \E out \in {UnbanCall(a) : a \in AdminUnbanArgs} : Commit(out)
    /\ UNCHANGED <<txn, users, call_vars>>

\* ban.delete() of the ORM: the row and, by cascade, its exceptions.
DeleteBan ==
    \E b \in bans :
        /\ bans' = bans \ {b}
        /\ exceptions' = ExceptionsOnBanDelete({b.id})
        /\ result' = Done("delete_ban", b,
                          Cardinality({e \in exceptions : e.ban = b.id}))
        /\ UNCHANGED <<audit_log, now, txn, users, call_vars>>

\* user.delete() of the ORM: the account, by cascade the bans of the user,
\* their exceptions and the audit entries about the user; the moderator keys
\* that point to the account are set to NULL.
DeleteUser ==
    \E u \in users :
        LET gone == {b \in bans : b.user = u}
        IN  /\ users' = users \ {u}
            /\ bans' = {[b EXCEPT !.banned_by = SetNull(@, u),
                                  !.unbanned_by = SetNull(@, u)] :
                            b \in bans \ gone}
            /\ exceptions' =
                   {[e EXCEPT !.unbanned_by = SetNull(@, u)] :
                       e \in ExceptionsOnBanDelete({b.id : b \in gone})}
            /\ audit_log' = AuditLogOnUserDelete(u)
            /\ result' = Done("delete_user", NoBan, 0)
            /\ UNCHANGED <<now, txn, call_vars>>

\* The change form of ModerationAuditLogAdmin: the fields of the "Human
\* Override" fieldset are not read-only.
AdminOverride ==
    \E i \in 1 .. Len(audit_log) : \E m \in users \ Users :
        /\ ~audit_log[i].moderator_override
        /\ audit_log' = [audit_log EXCEPT ![i].moderator_override = TRUE,
                                          ![i].moderator = m,
                                          ![i].override_reason = "overridden"]
        /\ result' = Done("admin_change", NoBan, 0)
        /\ UNCHANGED <<bans, exceptions, now, txn, users, call_vars>>

NextAdmin ==
    AdminBanUser \/ AdminUnbanUser \/ DeleteBan \/ DeleteUser \/ AdminOverride

SpecAdmin == Init /\ [][NextAdmin]_vars

\* ----------------------------------------------------- mute_and_report_user
\* The calls of mute_and_report_user (forum/api/users.py): the content ids
\* ("" is the default, no id), the request (None is the default; a request
\* carries its user), and what the backend does during the call: mute_user
\* returns or raises, and each flag_as_abuse call returns or raises.
MuteCalls ==
    [thread_id : {"", "t1"}, comment_id : {"", "c1"},
     request : {None, "request"},
     mute_user : {"ok", "ValueError", "Exception"},
     flag_thread : BOOLEAN, flag_thread_as_comment : BOOLEAN,
     flag_comment : BOOLEAN]

\* backend.flag_as_abuse(user_id, entity_id, entity_type) returns (TRUE) or
\* raises (FALSE).
flag_as_abuse(call, entity_id, entity_type) ==
    IF entity_type = "CommentThread" THEN call.flag_thread
    ELSE IF entity_id = call.thread_id THEN call.flag_thread_as_comment
    ELSE call.flag_comment

\* One entry of flagged_items.
FlaggedItem(content_type, content_id, flagged) ==
    [content_type |-> content_type, content_id |-> content_id,
     flagged |-> flagged, error |-> IF flagged THEN None ELSE "str(e)"]

\* The flagging of thread_id: as a thread, and when that raises, as a comment.
FlagThread(call) ==
    IF flag_as_abuse(call, call.thread_id, "CommentThread")
    THEN [attempts |-> << <<call.thread_id, "CommentThread">> >>,
          item |-> FlaggedItem("thread", call.thread_id, TRUE)]
    ELSE [attempts |-> << <<call.thread_id, "CommentThread">>,
                          <<call.thread_id, "Comment">> >>,
          item |-> FlaggedItem("comment", call.thread_id,
                               flag_as_abuse(call, call.thread_id, "Comment"))]

\* The flagging of comment_id.
FlagComment(call) ==
    [attempts |-> << <<call.comment_id, "Comment">> >>,
     item |-> FlaggedItem("comment", call.comment_id,
                          flag_as_abuse(call, call.comment_id, "Comment"))]

\* Mutant of ReportStatus: one flagged item is enough for 'success'.
ReportStatusAnyFlagged(flagged_items) ==
    IF \E i \in 1 .. Len(flagged_items) : flagged_items[i].flagged
    THEN "success" ELSE "partial"

\* The status of the report: all(item["flagged"] for item in flagged_items).
ReportStatus(flagged_items) ==
    IF \A i \in 1 .. Len(flagged_items) : flagged_items[i].flagged
    THEN "success" ELSE "partial"

\* mute_and_report_user(..., thread_id, comment_id, request): what the call
\* returns, or the error it raises, and the flag_as_abuse calls it made.
\* report_record has flagged_items when an item was flagged or attempted, and
\* a report_id otherwise (flagged_items is then shown empty).
mute_and_report_user(call) ==
    IF call.mute_user # "ok"
    THEN [status |-> "error", error |-> "ForumV2RequestError", attempts |-> <<>>]
    ELSE
      LET should_flag_content ==
              (call.thread_id # "" \/ call.comment_id # "") /\ call.request # None
          thread == IF should_flag_content /\ call.thread_id # ""
                    THEN FlagThread(call) ELSE [attempts |-> <<>>]
          comment == IF should_flag_content /\ call.comment_id # ""
                     THEN FlagComment(call) ELSE [attempts |-> <<>>]
          flagged_items ==
              (IF thread.attempts # <<>> THEN <<thread.item>> ELSE <<>>)
              \o (IF comment.attempts # <<>> THEN <<comment.item>> ELSE <<>>)
      IN  [status |-> "success", error |-> None,
           message |-> IF flagged_items # <<>>
                       THEN "User muted and content flagged"
                       ELSE "User muted and reported",
           mute_record |-> "mute_result",
           report_record |->
               IF flagged_items # <<>>
               THEN [status |-> ReportStatus(flagged_items),
                     flagged_items |-> flagged_items, report_id |-> None]
               ELSE [status |-> "success", flagged_items |-> <<>>,
                     report_id |-> "report_id"],
           attempts |-> thread.attempts \o comment.attempts]

\* A call of mute_and_report_user is made ...
InitMute ==
    /\ InitTables
    /\ procs = NoProcs
    /\ mute \in {[pc |-> "called", call |-> c] : c \in MuteCalls}
    /\ ai = NoAI
    /\ mongo = NoMongo

\* ... and returns or raises.
MuteAndReportUser ==
    /\ mute.pc = "called"
    /\ mute' = [pc |-> "returned", call |-> mute.call,
                result |-> mute_and_report_user(mute.call)]
    /\ UNCHANGED <<ban_vars, txn, users, procs, ai, mongo>>

NextMute == MuteAndReportUser

SpecMute == InitMute /\ [][NextMute]_vars

\* ------------------------------------------------- concurrent ban_user calls
\* Two requests run ban_user at the same time, each in its own transaction
\* (READ COMMITTED: a statement sees what is committed when it runs).  The
\* steps are the statements of the atomic block: the SELECT and the INSERT of
\* get_or_create, the UPDATE of the reactivation, and the audit INSERT with
\* the commit.

\* Number of calls made one after the other before the concurrent ones.
MaxRaceSetup == 2

\* The calls made concurrently: valid ones, on two keys.
RaceArgs ==
    {a \in BanArgs :
        \/ a.scope = "course" /\ a.course_id = "O1+C1" /\ a.org_key = None
        \/ a.scope = "organization" /\ a.course_id = None /\ a.org_key = "O1"}

\* lookup_kwargs of a valid call: the key the call looks up.
LookupKwargs(a) ==
    [user |-> a.user, scope |-> a.scope,
     course_key |-> IF a.scope = "organization" /\ a.org_key # None
                    THEN None ELSE a.course_id,
     org_key |-> IF a.scope = "organization" /\ a.org_key # None
                 THEN a.org_key ELSE CourseKeyOrg(a.course_id)]

\* The rows get() of get_or_create matches, among the committed rows.
RaceLookup(a) ==
    LET k == LookupKwargs(a)
    IN  BanLookup(k.user, k.scope, k.course_key, k.org_key)

\* The processes that are inside their atomic block.
Running == {p \in Procs : procs[p].pc \notin {"idle", "done"}}

\* The rows written and not yet committed by the processes other than p.
Uncommitted(p) ==
    {procs[q].write : q \in {r \in Running \ {p} : procs[r].write # NoBan}}

\* The row create() of get_or_create inserts.
RaceFresh(p) ==
    LET a == procs[p].a
        k == LookupKwargs(a)
    IN  [id |-> NextId(bans \cup Uncommitted(p)), user |-> a.user,
         course_id |-> IF a.scope = "course" THEN k.course_key ELSE None,
         org_key |-> k.org_key, scope |-> a.scope, is_active |-> TRUE,
         banned_by |-> a.caller[1],
         reason |-> OrDefault(a.caller[2], "No reason provided"),
         banned_at |-> now, unbanned_at |-> 0, unbanned_by |-> None]

\* The process has returned or raised.
RaceDone(p, status, error) ==
    [procs[p] EXCEPT !.pc = "done", !.status = status, !.error = error]

\* Mutant of get_or_create_conflict: the IntegrityError is not caught.
get_or_create_reraise(p, found) ==
    RaceDone(p, "error", "IntegrityError")

\* get_or_create after its INSERT raised IntegrityError: it reads again and
\* returns the row that is there now, not created; it raises again when
\* there is none.
get_or_create_conflict(p, found) ==
    IF found = {}
    THEN RaceDone(p, "error", "IntegrityError")
    ELSE [procs[p] EXCEPT !.pc = "reactivate",
                          !.ban = CHOOSE b \in found : TRUE,
                          !.conflict = TRUE]

\* Calls made one after the other, before the concurrent ones start.
RaceSetupBan ==
    /\ \A p \in Procs : procs[p].pc = "idle"
    /\ Len(audit_log) < MaxRaceSetup
    /\ \E out \in {BanCall(a) : a \in RaceArgs} : Commit(out)
    /\ UNCHANGED <<txn, users, call_vars>>

RaceSetupUnban ==
    /\ \A p \in Procs : procs[p].pc = "idle"
    /\ Len(audit_log) < MaxRaceSetup
    /\ \E b \in bans :
          /\ b.is_active
          /\ Commit(unban_user(b.id, None, "m2", None, None, ""))
    /\ UNCHANGED <<txn, users, call_vars>>

\* A request calls ban_user; the concurrent calls are on the same key.
RaceCall(p) ==
    /\ procs[p].pc = "idle"
    /\ \E a \in RaceArgs :
          /\ \A q \in Procs \ {p} :
                procs[q].pc # "idle" => LookupKwargs(procs[q].a) = LookupKwargs(a)
          /\ procs' = [procs EXCEPT ![p] =
                          [pc |-> "get", a |-> a, ban |-> NoBan, created |-> FALSE,
                           reactivated |-> FALSE, write |-> NoBan,
                           conflict |-> FALSE, status |-> "running",
                           error |-> None]]
    /\ UNCHANGED <<ban_vars, txn, users, mute, ai, mongo>>

\* get_or_create: the SELECT.
RaceGet(p) ==
    /\ procs[p].pc = "get"
    /\ LET found == RaceLookup(procs[p].a)
       IN  procs' = [procs EXCEPT ![p] =
               IF found = {} THEN [@ EXCEPT !.pc = "create"]
               ELSE IF Cardinality(found) > 1
               THEN RaceDone(p, "error", "MultipleObjectsReturned")
               ELSE [@ EXCEPT !.pc = "reactivate",
                              !.ban = CHOOSE b \in found : TRUE]]
    /\ UNCHANGED <<ban_vars, txn, users, mute, ai, mongo>>

\* get_or_create: the INSERT.  It waits while another transaction holds an
\* uncommitted row with the same unique key, raises IntegrityError when a
\* committed row has it, and succeeds otherwise.
RaceCreate(p) ==
    /\ procs[p].pc = "create"
    /\ UniqueActiveBan(Uncommitted(p) \cup {RaceFresh(p)})
    /\ procs' = [procs EXCEPT ![p] =
           IF UniqueActiveBan(bans \cup {RaceFresh(p)})
           THEN [@ EXCEPT !.pc = "audit", !.ban = RaceFresh(p),
                          !.created = TRUE, !.write = RaceFresh(p)]
           ELSE get_or_create_conflict(p, RaceLookup(procs[p].a))]
    /\ UNCHANGED <<ban_vars, txn, users, mute, ai, mongo>>

\* `if not created and not ban.is_active`: the UPDATE of ban.save().  It waits
\* while another transaction holds an uncommitted write of the row.
RaceReactivate(p) ==
    /\ procs[p].pc = "reactivate"
    /\ LET old == procs[p].ban
           new == [old EXCEPT !.is_active = TRUE,
                              !.banned_by = procs[p].a.caller[1],
                              !.reason = OrDefault(procs[p].a.caller[2], old.reason),
                              !.banned_at = now, !.unbanned_at = 0,
                              !.unbanned_by = None]
       IN  IF old.is_active
           THEN procs' = [procs EXCEPT ![p].pc = "audit"]
           ELSE /\ \A w \in Uncommitted(p) : w.id # old.id
                /\ procs' = [procs EXCEPT ![p] =
                       [@ EXCEPT !.pc = "audit", !.ban = new,
                                 !.reactivated = TRUE, !.write = new]]
    /\ UNCHANGED <<ban_vars, txn, users, mute, ai, mongo>>

\* The audit INSERT and the commit of the block; ban_user returns.
RaceCommit(p) ==
    /\ procs[p].pc = "audit"
    /\ LET me == procs[p]
           k == LookupKwargs(me.a)
       IN  /\ bans' = IF me.write = NoBan THEN bans
                      ELSE {b \in bans : b.id # me.write.id} \cup {me.write}
           /\ audit_log' = AuditLogCreate(
                  AuditEntry("ban_user", me.a.user, me.a.caller[1], k.course_key,
                             me.a.scope, me.a.caller[2],
                             [ban_id |-> me.ban.id, created |-> me.created]))
           /\ result' = [op |-> "ban_user", status |-> "success", error |-> None,
                         ban |-> SerializeBan(me.ban),
                         reactivated |-> me.reactivated,
                         exception_created |-> FALSE, exception |-> 0]
           /\ procs' = [procs EXCEPT ![p] = RaceDone(p, "success", None)]
    /\ now' = now + 1
    /\ UNCHANGED <<exceptions, txn, users, mute, ai, mongo>>

RaceStep(p) ==
    \/ RaceCall(p)
    \/ RaceGet(p)
    \/ RaceCreate(p)
    \/ RaceReactivate(p)
    \/ RaceCommit(p)

NextRace == RaceSetupBan \/ RaceSetupUnban \/ \E p \in Procs : RaceStep(p)

SpecRace == Init /\ [][NextRace]_vars

\* ------------------------------------------------------------ the REST views
\* BanUserAPIView.post and BanDetailAPIView.get, on tables filled by direct
\* ban_user / unban_user calls.

\* Number of direct calls that fill the tables before the requests.
MaxViewLog == 2

\* A field the request body does not carry.
Absent == "absent"

\* An id that matches no account.
NoSuchUser == "u9"

\* The request bodies posted to /api/v2/users/bans.
Bodies ==
    [user_id : Users \cup {NoSuchUser, Absent}, banned_by_id : {"m1"},
     scope : {"course", "organization", Absent},
     course_id : {"O1+C1", Absent}, org_key : {"O1", Absent},
     reason : {"spam", Absent}]

\* The ban ids asked of /api/v2/users/bans/<ban_id>.
BanIds == 0 .. MaxViewLog + 1

\* attrs.get(name): the field, or None when the body does not carry it.
AttrsGet(attrs, name) == IF attrs[name] = Absent THEN None ELSE attrs[name]

\* BanUserSerializer.is_valid: the required fields are there and validate()
\* accepts the scope with its key.
BanUserSerializer_is_valid(body) ==
    LET scope == IF body.scope = Absent THEN "course" ELSE body.scope
    IN  /\ body.user_id # Absent
        /\ body.banned_by_id # Absent
        /\ ~(scope = "course" /\ AttrsGet(body, "course_id") = None)
        /\ ~(scope = "organization" /\ AttrsGet(body, "org_key") = None)

\* serializer.validated_data: the fields the body carries, under the names
\* the serializer declares, and scope with its default.
BanUserSerializer_validated_data(body) ==
    LET given == {f \in DOMAIN body : body[f] # Absent} \cup {"scope"}
    IN  [f \in given |-> IF f = "scope" /\ body.scope = Absent
                         THEN "course" ELSE body[f]]

\* The parameters of ban_user, and the ones without a default.
ban_user_parameters ==
    {"user", "banned_by", "course_id", "org_key", "scope", "reason"}

ban_user_required == {"user", "banned_by"}

\* The keyword argument, or the default of the parameter.
KwArg(kwargs, name, default) ==
    IF name \in DOMAIN kwargs THEN kwargs[name] ELSE default

\* ban_user(**kwargs): Python binds the keywords to the parameters and
\* raises TypeError for a keyword that names no parameter or a parameter
\* without default that gets no value; the body runs otherwise.
ban_user_kwargs(kwargs) ==
    IF ~(DOMAIN kwargs \subseteq ban_user_parameters)
    THEN Raise("ban_user", "TypeError: got an unexpected keyword argument")
    ELSE IF ~(ban_user_required \subseteq DOMAIN kwargs)
    THEN Raise("ban_user", "TypeError: missing required positional argument")
    ELSE ban_user(kwargs["user"], kwargs["banned_by"],
                  KwArg(kwargs, "course_id", None), KwArg(kwargs, "org_key", None),
                  KwArg(kwargs, "scope", "course"), KwArg(kwargs, "reason", ""))

\* The exceptions that are ValueError or TypeError.
ValueOrTypeErrors ==
    {"ValueError: Invalid scope",
     "ValueError: course_id is required for course-level bans",
     "ValueError: org_key or course_id is required for organization-level bans",
     "ValueError: Either ban_id or user must be provided",
     "TypeError: got an unexpected keyword argument",
     "TypeError: missing required positional argument"}

\* What a view leaves in `result`: the request, the status code and the body
\* of the response.
Response(op, request, http, data) ==
    [op |-> op, request |-> request, http |-> http, data |-> data]

\* BanUserAPIView.post: the tables and the response after the request.
BanUserAPIView_post(body) ==
    IF ~BanUserSerializer_is_valid(body)
    THEN [Raise("post", "ValidationError") EXCEPT
             !.result = Response("BanUserAPIView.post", body, 400, "errors")]
    ELSE
      LET out == ban_user_kwargs(BanUserSerializer_validated_data(body))
      IN  [out EXCEPT !.result =
             IF out.result.status = "success"
             THEN Response("BanUserAPIView.post", body, 201, out.result.ban)
             ELSE IF out.result.error \in ValueOrTypeErrors
             THEN Response("BanUserAPIView.post", body, 400, out.result.error)
             ELSE IF out.result.error = "User.DoesNotExist"
             THEN Response("BanUserAPIView.post", body, 404, "User not found")
             ELSE Response("BanUserAPIView.post", body, 500, "Failed to ban user")]

\* get_ban(ban_id, user, course_id, scope): the serialized ban, None when
\* DoesNotExist was raised and caught, or the exception that leaves it.
get_ban(ban_id, user, course_id, scope) ==
    LET found == IF ban_id # 0
                 THEN {b \in bans : b.id = ban_id}
                 ELSE {b \in bans : /\ b.user = user
                                    /\ b.is_active
                                    /\ (scope # None => b.scope = scope)
                                    /\ (course_id # None => b.course_id = course_id)}
    IN  IF ban_id = 0 /\ user = None
        THEN [raised |-> TRUE, value |-> "ValueError: Either ban_id or user must be provided"]
        ELSE IF found = {}
        THEN [raised |-> FALSE, value |-> None]
        ELSE IF Cardinality(found) > 1
        THEN [raised |-> TRUE, value |-> "MultipleObjectsReturned"]
        ELSE [raised |-> FALSE, value |-> SerializeBan(CHOOSE b \in found : TRUE)]

\* BanDetailAPIView.get: the response to the request.
BanDetailAPIView_get(ban_id) ==
    LET ban_data == get_ban(ban_id, None, None, None)
    IN  IF ~ban_data.raised
        THEN Response("BanDetailAPIView.get", ban_id, 200, ban_data.value)
        ELSE IF ban_data.value = "DiscussionBan.DoesNotExist"
        THEN Response("BanDetailAPIView.get", ban_id, 404, "Ban not found")
        ELSE IF ban_data.value \in ValueOrTypeErrors
        THEN Response("BanDetailAPIView.get", ban_id, 400, ban_data.value)
        ELSE Response("BanDetailAPIView.get", ban_id, 500,
                      "Failed to fetch ban details")

\* Direct calls that fill the tables.
ViewSetupBan ==
    /\ Len(audit_log) < MaxViewLog
    /\ \E out \in {BanCall(a) : a \in TxnBanArgs} :
          out.result.status = "success" /\ Commit(out)
    /\ UNCHANGED <<txn, users, call_vars>>

ViewSetupUnban ==
    /\ Len(audit_log) < MaxViewLog
    /\ \E out \in {UnbanCall(a) : a \in TxnUnbanArgs} :
          out.result.status = "success" /\ Commit(out)
    /\ UNCHANGED <<txn, users, call_vars>>

\* POST /api/v2/users/bans
PostBan ==
    /\ \E out \in {BanUserAPIView_post(body) : body \in Bodies} : Commit(out)
    /\ UNCHANGED <<txn, users, call_vars>>

\* GET /api/v2/users/bans/<ban_id>
GetBan ==
    /\ \E ban_id \in BanIds : result' = BanDetailAPIView_get(ban_id)
    /\ UNCHANGED <<bans, exceptions, audit_log, now, txn, users, call_vars>>

NextView == ViewSetupBan \/ ViewSetupUnban \/ PostBan \/ GetBan

SpecView == Init /\ [][NextView]_vars

\* --------------------------------------------------------------- AI moderation
\* AIModerationService.moderate_and_flag_content with its upstream request
\* and its backend, on one call drawn from the inputs below.

\* JSON values as Python objects.
JNull == [type |-> "NoneType"]

JNum(n) == [type |-> "int", value |-> n]

JList(items) == [type |-> "list", items |-> items]

JDict(fields) == [type |-> "dict", fields |-> fields]

\* json.loads / response.json(): the value of a text, or no value when the
\* text is not JSON.
json_loads(text) ==
    CASE text = "[]" -> [ok |-> TRUE, value |-> JList(<<>>)]
      [] text = "null" -> [ok |-> TRUE, value |-> JNull]
      [] text = "[1]" -> [ok |-> TRUE, value |-> JList(<<JNum(1)>>)]
      [] text = "{}" -> [ok |-> TRUE, value |-> JDict(<<>>)]
      [] text = "{\"error\": \"overloaded\"}"
            -> [ok |-> TRUE, value |-> JDict([error |-> "overloaded"])]
      [] text = "{\"classification\": \"spam\"}"
            -> [ok |-> TRUE, value |-> JDict([classification |-> "spam"])]
      [] text = "{\"classification\": \"spam_or_scam\"}"
            -> [ok |-> TRUE, value |-> JDict([classification |-> "spam_or_scam"])]
      [] text = "{\"classification\": \"not_spam\"}"
            -> [ok |-> TRUE, value |-> JDict([classification |-> "not_spam"])]
      [] text = "[{}]" -> [ok |-> TRUE, value |-> JList(<<JDict(<<>>)>>)]
      [] text = "[{\"content\": \"oops\"}]"
            -> [ok |-> TRUE, value |-> JList(<<JDict([content |-> "oops"])>>)]
      [] text = "[{\"content\": \"null\"}]"
            -> [ok |-> TRUE, value |-> JList(<<JDict([content |-> "null"])>>)]
      [] text = "[{\"content\": \"[1]\"}]"
            -> [ok |-> TRUE, value |-> JList(<<JDict([content |-> "[1]"])>>)]
      [] text = "[{\"content\": \"{}\"}]"
            -> [ok |-> TRUE, value |-> JList(<<JDict([content |-> "{}"])>>)]
      [] text = "[{\"content\": \"{\\\"classification\\\": \\\"spam\\\"}\"}]"
            -> [ok |-> TRUE, value |->
                   JList(<<JDict([content |-> "{\"classification\": \"spam\"}"])>>)]
      [] text = "[{\"content\": \"{\\\"classification\\\": \\\"spam_or_scam\\\"}\"}]"
            -> [ok |-> TRUE, value |->
                   JList(<<JDict([content |-> "{\"classification\": \"spam_or_scam\"}"])>>)]
      [] text = "[{\"content\": \"{\\\"classification\\\": \\\"not_spam\\\"}\"}]"
            -> [ok |-> TRUE, value |->
                   JList(<<JDict([content |-> "{\"classification\": \"not_spam\"}"])>>)]
      [] OTHER -> [ok |-> FALSE]

\* The bodies the upstream service answers with.
UpstreamBodies ==
    {"<html>Bad Gateway</html>", "[]", "[1]", "null", "{\"error\": \"overloaded\"}",
     "[{}]", "[{\"content\": \"oops\"}]", "[{\"content\": \"null\"}]",
     "[{\"content\": \"[1]\"}]", "[{\"content\": \"{}\"}]",
     "[{\"content\": \"{\\\"classification\\\": \\\"spam\\\"}\"}]",
     "[{\"content\": \"{\\\"classification\\\": \\\"spam_or_scam\\\"}\"}]",
     "[{\"content\": \"{\\\"classification\\\": \\\"not_spam\\\"}\"}]"}

\* What requests.post meets: a timeout, an error status, or a body.
Upstreams ==
    {[kind |-> "timeout", body |-> ""], [kind |-> "http_error", body |-> ""]}
    \cup {[kind |-> "body", body |-> b] : b \in UpstreamBodies}

\* What a backend method does when called: it returns, or raises.
BackendOutcomes == {"ok", "ValueError", "AttributeError", "DatabaseError"}

\* The class of the exception response.json() raises on a body that is not
\* JSON: a RequestException in requests 2.27 and later, a ValueError before.
JsonErrorClasses == {"RequestException", "ValueError"}

\* The calls: the waffle flag, the upstream answer, the requests library, and
\* what backend.flag_content_as_spam and backend.flag_as_abuse do.
AICalls ==
    [enabled : BOOLEAN, upstream : Upstreams, json_error : JsonErrorClasses,
     flag_content_as_spam : BackendOutcomes, flag_as_abuse : {"ok", "ValueError"}]

\* A function returned a value / raised an exception.
Returned(value) == [raised |-> None, value |-> value]

Raised(error) == [raised |-> error, value |-> JNull]

\* dict.get(key, default)
DictGet(d, key, default) ==
    IF key \in DOMAIN d.fields THEN d.fields[key] ELSE default

\* response_data[0]
FirstItem(data) ==
    IF data.type = "list"
    THEN IF Len(data.items) = 0 THEN Raised("IndexError")
         ELSE Returned(data.items[1])
    ELSE IF data.type = "dict" THEN Raised("KeyError")
    ELSE Raised("TypeError")

\* The exceptions _make_api_request catches around the request.
RequestExceptions == {"Timeout", "HTTPError", "RequestException"}

\* _make_api_request: the moderation result, None after a caught failure, or
\* the exception that leaves it.
make_api_request(call) ==
    IF call.upstream.kind = "timeout" THEN Returned(JNull)
    ELSE IF call.upstream.kind = "http_error" THEN Returned(JNull)
    ELSE
      LET response_data == json_loads(call.upstream.body)
      IN  IF ~response_data.ok
          THEN IF call.json_error \in RequestExceptions
               THEN Returned(JNull) ELSE Raised(call.json_error)
          ELSE
            LET item == FirstItem(response_data.value)
            IN  IF item.raised # None THEN item
                ELSE IF item.value.type # "dict"
                THEN Raised("AttributeError")
                ELSE
                  LET moderation_result ==
                          json_loads(DictGet(item.value, "content", ""))
                  IN  IF ~moderation_result.ok THEN Returned(JNull)
                      ELSE IF moderation_result.value.type # "dict"
                      THEN Raised("TypeError")
                      ELSE Returned(moderation_result.value)

\* The exceptions _mark_as_spam_and_flag_abuse catches and logs.
MarkCaught == {"AttributeError", "ValueError", "TypeError", "ImportError"}

\* The exceptions moderate_and_flag_content catches around the flagging.
FlagCaught == {"AttributeError", "ValueError", "TypeError"}

\* _mark_as_spam_and_flag_abuse: which backend calls took effect, and the
\* exception that leaves the method, if any.
mark_as_spam_and_flag_abuse(call) ==
    IF call.flag_content_as_spam # "ok"
    THEN [spam_flagged |-> FALSE, abuse_flagged |-> FALSE,
          raised |-> IF call.flag_content_as_spam \in MarkCaught
                     THEN None ELSE call.flag_content_as_spam]
    ELSE IF call.flag_as_abuse # "ok"
    THEN [spam_flagged |-> TRUE, abuse_flagged |-> FALSE,
          raised |-> IF call.flag_as_abuse \in MarkCaught
                     THEN None ELSE call.flag_as_abuse]
    ELSE [spam_flagged |-> TRUE, abuse_flagged |-> TRUE, raised |-> None]

\* What moderate_and_flag_content leaves behind: the exception that left it
\* or the dictionary it returned, the backend calls that took effect, and
\* whether create_moderation_audit_log was called.
AIOutcome(raised, is_spam, classification, reasoning, actions_taken, flagged, mark, audited) ==
    [raised |-> raised, is_spam |-> is_spam, classification |-> classification,
     reasoning |-> reasoning, actions_taken |-> actions_taken,
     flagged |-> flagged, spam_flagged |-> mark.spam_flagged,
     abuse_flagged |-> mark.abuse_flagged, audited |-> audited]

\* No backend call was made.
NotMarked == [spam_flagged |-> FALSE, abuse_flagged |-> FALSE, raised |-> None]

\* actions_taken after the flagging block: 'flagged' when
\* _mark_as_spam_and_flag_abuse returned, 'no_action' when it raised one of
\* the caught exceptions.
ActionsTaken(mark) ==
    IF mark.raised = None THEN <<"flagged">> ELSE <<"no_action">>

\* moderate_and_flag_content
moderate_and_flag_content(call) ==
    IF ~call.enabled
    THEN AIOutcome(None, FALSE, "not_spam", "AI moderation disabled or unavailable",
                   <<"no_action">>, FALSE, NotMarked, FALSE)
    ELSE
      LET moderation_result == make_api_request(call)
      IN  IF moderation_result.raised # None
          THEN AIOutcome(moderation_result.raised, FALSE, "not_spam", None,
                         <<>>, FALSE, NotMarked, FALSE)
          ELSE IF moderation_result.value = JNull
          THEN AIOutcome(None, FALSE, "not_spam", "AI moderation API failed",
                         <<"no_action">>, FALSE, NotMarked, FALSE)
          ELSE
            LET classification ==
                    DictGet(moderation_result.value, "classification", "not_spam")
                reasoning ==
                    DictGet(moderation_result.value, "reasoning", "No reasoning provided")
                is_spam == classification \in {"spam", "spam_or_scam"}
                mark == mark_as_spam_and_flag_abuse(call)
            IN  IF ~is_spam
                THEN AIOutcome(None, FALSE, classification, reasoning,
                               <<"no_action">>, FALSE, NotMarked, FALSE)
                ELSE IF mark.raised # None /\ mark.raised \notin FlagCaught
                THEN AIOutcome(mark.raised, TRUE, classification, reasoning,
                               <<>>, FALSE, mark, FALSE)
                ELSE AIOutcome(None, TRUE, classification, reasoning,
                               ActionsTaken(mark), mark.raised = None, mark, TRUE)

InitAI ==
    /\ InitTables
    /\ procs = NoProcs
    /\ mute = NoMute
    /\ mongo = NoMongo
    /\ ai \in {[pc |-> "called", call |-> c] : c \in AICalls}

\* The call runs; create_moderation_audit_log adds its entry.
ModerateAndFlagContent ==
    /\ ai.pc = "called"
    /\ LET out == moderate_and_flag_content(ai.call)
       IN  /\ ai' = [pc |-> "returned", call |-> ai.call, result |-> out]
           /\ audit_log' = IF out.audited
                           THEN Append(audit_log,
                                       [source |-> "ai",
                                        classification |-> out.classification,
                                        reasoning |-> out.reasoning,
                                        actions_taken |-> out.actions_taken])
                           ELSE audit_log
    /\ UNCHANGED <<bans, exceptions, now, result, txn, users, procs, mute, mongo>>

NextAI == ModerateAndFlagContent

SpecAI == InitAI /\ [][NextAI]_vars

\* ------------------------------------------------------- get_user_ban_scope
\* get_user_ban_scope(user, course_id): 'organization', 'course' or None.
get_user_ban_scope(user, course_id) ==
    LET org_name == CourseKeyOrg(course_id)
        org_bans == {b \in bans : /\ b.user = user
                                  /\ b.org_key = org_name
                                  /\ b.scope = "organization"
                                  /\ b.is_active}
        course_banned == \E b \in bans : /\ b.user = user
                                         /\ b.course_id = course_id
                                         /\ b.scope = "course"
                                         /\ b.is_active
    IN  IF org_bans # {}
        THEN LET org_ban == CHOOSE b \in org_bans :
                                \A o \in org_bans : b.id <= o.id
             IN  IF \E e \in exceptions : e.ban = org_ban.id /\ e.course_id = course_id
                 THEN IF course_banned THEN "course" ELSE None
                 ELSE "organization"
        ELSE IF course_banned THEN "course" ELSE None

\* ------------------------------------------------- the life of one ban
\* Longer sequences of calls on fewer keys: a ban, its exceptions, its full
\* unban and its reactivation.

\* Number of calls in a sequence.
MaxLifeLog == 4

LifeBanUser ==
    /\ Len(audit_log) < MaxLifeLog
    /\ \E out \in {BanCall(a) : a \in TxnBanArgs} : Commit(out)
    /\ UNCHANGED <<txn, users, call_vars>>

LifeUnbanUser ==
    /\ Len(audit_log) < MaxLifeLog
    /\ \E out \in {UnbanCall(a) : a \in TxnUnbanArgs} : Commit(out)
    /\ UNCHANGED <<txn, users, call_vars>>

NextLife == LifeBanUser \/ LifeUnbanUser

SpecLife == Init /\ [][NextLife]_vars

\* ----------------------------------------------- concurrent unban_user calls
\* Two requests run unban_user(ban_id, unbanned_by) at the same time, while
\* ban_user calls of other requests commit in between.  unban_user reads the
\* ban before its atomic block and writes the copy it read inside the block.

\* A request calls unban_user with a ban_id and no course_id; the concurrent
\* calls are on the same ban.
UnbanRaceCall(p) ==
    /\ procs[p].pc = "idle"
    /\ \E id \in 1 .. MaxRaceSetup :
          /\ \A q \in Procs \ {p} : procs[q].pc # "idle" => procs[q].ban_id = id
          /\ procs' = [procs EXCEPT ![p] =
                          [pc |-> "lookup", ban_id |-> id, unbanned_by |-> "m2",
                           ban |-> NoBan, write |-> NoBan, status |-> "running",
                           error |-> None]]
    /\ UNCHANGED <<ban_vars, txn, users, mute, ai, mongo>>

\* DiscussionBan.objects.get(id=ban_id, is_active=True), before the block.
UnbanRaceLookup(p) ==
    /\ procs[p].pc = "lookup"
    /\ LET found == UnbanLookup(procs[p].ban_id, None, None, None)
       IN  procs' = [procs EXCEPT ![p] =
               IF found = {}
               THEN RaceDone(p, "error", "ValueError: Active ban with id not found")
               ELSE [@ EXCEPT !.pc = "save", !.ban = CHOOSE b \in found : TRUE]]
    /\ UNCHANGED <<ban_vars, txn, users, mute, ai, mongo>>

\* The full unban: ban.save() of the copy read by the lookup.  The UPDATE
\* waits while another transaction holds an uncommitted write of the row.
UnbanRaceSave(p) ==
    /\ procs[p].pc = "save"
    /\ \A w \in Uncommitted(p) : w.id # procs[p].ban.id
    /\ procs' = [procs EXCEPT ![p] =
           [@ EXCEPT !.pc = "audit",
                     !.write = Deactivated(procs[p].ban, procs[p].unbanned_by)]]
    /\ UNCHANGED <<ban_vars, txn, users, mute, ai, mongo>>

\* The audit INSERT and the commit of the block; unban_user returns.
UnbanRaceCommit(p) ==
    /\ procs[p].pc = "audit"
    /\ LET me == procs[p]
       IN  /\ bans' = {b \in bans : b.id # me.write.id} \cup {me.write}
           /\ audit_log' = AuditLogCreate(
                  AuditEntry("unban_user", me.ban.user, me.unbanned_by,
                             me.ban.course_id, me.ban.scope, <<"Unban: ", "">>,
                             [ban_id |-> me.ban.id]))
           /\ result' = [op |-> "unban_user", status |-> "success", error |-> None,
                         ban |-> SerializeBan(me.write), reactivated |-> FALSE,
                         exception_created |-> FALSE, exception |-> 0]
           /\ procs' = [procs EXCEPT ![p] = RaceDone(p, "success", None)]
    /\ now' = now + 1
    /\ UNCHANGED <<exceptions, txn, users, mute, ai, mongo>>

\* A ban_user call of another request reactivates the ban while an
\* unban_user call is between its lookup and its save.
UnbanRaceBan ==
    /\ \E p \in Procs : procs[p].pc = "save"
    /\ \A p \in Running : procs[p].write = NoBan
    /\ \E out \in {BanCall(a) : a \in RaceArgs} :
          out.result.reactivated /\ Commit(out)
    /\ UNCHANGED <<txn, users, call_vars>>

UnbanRaceStep(p) ==
    \/ UnbanRaceCall(p)
    \/ UnbanRaceLookup(p)
    \/ UnbanRaceSave(p)
    \/ UnbanRaceCommit(p)

NextUnbanRace ==
    RaceSetupBan \/ UnbanRaceBan \/ \E p \in Procs : UnbanRaceStep(p)

SpecUnbanRace == Init /\ [][NextUnbanRace]_vars

\* --------------------------------------------------- MongoDB comment store
\* Comment.delete and Comment.restore_comment on the comments of one thread,
\* with the thread's denormalized comment_count.

\* Number of delete / restore calls in a sequence.
MaxMongoOps == 4

\* The comments of the thread: two responses and the replies to the first.
CommentIds == {"r1", "c1", "c2", "r2"}

\* parent_id of the comments: None for a response.
ParentId(id) ==
    CASE id = "c1" -> "r1"
      [] id = "c2" -> "r1"
      [] OTHER -> None

\* Deletion modes the calls use.
DeleteModes == {"soft"}

\* The thread as inserted: insert() writes no is_deleted field, and
\* comment_count counts every comment.
NewThread ==
    [thread |-> "t1", comment_count |-> Cardinality(CommentIds),
     comments |-> [id \in CommentIds |->
                      [parent_id |-> ParentId(id), is_deleted |-> "unset"]],
     ops |-> 0]

\* find({"parent_id": _id, "is_deleted": {"$ne": True}}): also the documents
\* without the field.
ChildrenNotDeleted(store, id) ==
    {c \in DOMAIN store.comments :
        store.comments[c].parent_id = id /\ store.comments[c].is_deleted # "True"}

\* find({"parent_id": comment_id, "is_deleted": {"$eq": False}}): only the
\* documents that have the field.
ChildrenRestored(store, id) ==
    {c \in DOMAIN store.comments :
        store.comments[c].parent_id = id /\ store.comments[c].is_deleted = "False"}

\* find({"parent_id": _id})
Children(store, id) ==
    {c \in DOMAIN store.comments : store.comments[c].parent_id = id}

\* Comment.delete_child_comments: the ids it deletes.
delete_child_comments(store, id, mode) ==
    IF mode = "soft" THEN ChildrenNotDeleted(store, id) ELSE Children(store, id)

\* Comment.delete(_id, mode): the store after the call.
Comment_delete(store, id, mode) ==
    IF id \notin DOMAIN store.comments THEN store
    ELSE
      LET comment == store.comments[id]
          children == IF comment.parent_id = None
                      THEN delete_child_comments(store, id, mode) ELSE {}
          gone == children \cup {id}
          no_of_comments_delete == 1 + Cardinality(children)
      IN  [store EXCEPT
             !.comments =
                 IF mode = "soft"
                 THEN [c \in DOMAIN store.comments |->
                          IF c \in gone
                          THEN [store.comments[c] EXCEPT !.is_deleted = "True"]
                          ELSE store.comments[c]]
                 ELSE [c \in DOMAIN store.comments \ gone |-> store.comments[c]],
             !.comment_count = store.comment_count - no_of_comments_delete]

\* Comment.restore_comment(comment_id): the store after the call.
restore_comment(store, id) ==
    IF id \notin DOMAIN store.comments THEN store
    ELSE IF store.comments[id].is_deleted # "True" THEN store
    ELSE
      LET child_count == IF store.comments[id].parent_id = None
                         THEN Cardinality(ChildrenRestored(store, id)) ELSE 0
      IN  [store EXCEPT !.comments[id].is_deleted = "False",
                        !.comment_count = store.comment_count + 1 + child_count]

InitMongo ==
    /\ InitTables
    /\ procs = NoProcs
    /\ mute = NoMute
    /\ ai = NoAI
    /\ mongo = NewThread

DeleteComment ==
    /\ mongo.ops < MaxMongoOps
    /\ \E id \in CommentIds : \E mode \in DeleteModes :
          mongo' = [Comment_delete(mongo, id, mode) EXCEPT !.ops = mongo.ops + 1]
    /\ UNCHANGED <<ban_vars, txn, users, procs, mute, ai>>

RestoreComment ==
    /\ mongo.ops < MaxMongoOps
    /\ \E id \in CommentIds :
          mongo' = [restore_comment(mongo, id) EXCEPT !.ops = mongo.ops + 1]
    /\ UNCHANGED <<ban_vars, txn, users, procs, mute, ai>>

NextMongo == DeleteComment \/ RestoreComment

SpecMongo == InitMongo /\ [][NextMongo]_vars

\* The rows DiscussionBan.objects.create is called with.
CreateArgs ==
    [user : Users, caller : Unbanners, course_id : Courses \cup {None},
     org_key : {None}, scope : {"course"}, is_active : BOOLEAN]
    \cup [user : Users, caller : Unbanners, course_id : {None},
          org_key : Orgs \cup {None}, scope : {"organization"},
          is_active : BOOLEAN]

\* DiscussionBan.objects.create applied to a record of arguments.
CreateCall(a) ==
    DiscussionBan_objects_create(a.user, a.course_id, a.org_key, a.scope,
                                 a.is_active, a.caller[1],
                                 OrDefault(a.caller[2], "Old reason"))

\* ------------------------------------------------------------------ claims
\* The last audit log entry.
LastEntry == audit_log[Len(audit_log)]

\* The natural key of a ban: (user, course_id) at course scope, (user,
\* org_key) at organization scope.
KeyOf(b) ==
    <<b.user, b.scope, IF b.scope = "course" THEN b.course_id ELSE b.org_key>>

\* The key a ban_user call with arguments a addresses.
ArgsKey(a) ==
    <<a.user, a.scope,
      IF a.scope = "course" THEN a.course_id
      ELSE IF a.org_key # None THEN a.org_key
      ELSE IF a.course_id # None THEN CourseKeyOrg(a.course_id) ELSE None>>

\* The rows of a table with key k.
RowsOf(rows, k) == {b \in rows : KeyOf(b) = k}

\* C1 (idempotent ban): after a successful ban_user at course scope, every
\* further ban_user call on the same (user, scope = course, course_id), by
\* any moderator and with any reason, succeeds, returns the ban the first
\* call returned, adds no row and leaves exactly one active row for the key.
C1_IdempotentBan ==
    (result.op = "ban_user" /\ result.status = "success"
     /\ result.ban.scope = "course")
    => \A a \in BanArgs :
          ArgsKey(a) = KeyOf(result.ban)
          => LET out == BanCall(a)
             IN  /\ out.result.status = "success"
                 /\ out.result.ban.id = result.ban.id
                 /\ out.result.ban.is_active
                 /\ Cardinality(out.bans) = Cardinality(bans)
                 /\ Cardinality({b \in RowsOf(out.bans, ArgsKey(a)) :
                                    b.is_active}) = 1

\* C1 witness: two ban_user calls in a row on one course-scope key, the
\* second returning the ban the first created.
C1_Witness ==
    /\ Len(audit_log) >= 2
    /\ result.op = "ban_user" /\ result.status = "success"
    /\ result.ban.scope = "course"
    /\ LastEntry.action_type = "ban_user" /\ ~LastEntry.metadata.created
    /\ ~result.reactivated
    /\ audit_log[Len(audit_log) - 1].action_type = "ban_user"
    /\ audit_log[Len(audit_log) - 1].metadata.created
    /\ audit_log[Len(audit_log) - 1].metadata.ban_id = result.ban.id

\* C2 (reactivation keeps the key unique): in every state, for every
\* key whose ban was deactivated by a full unban, a ban_user call on that
\* key succeeds with reactivated = true, returns that same row, and leaves
\* exactly one row in total for the key, which is active.
C2_ReactivationKeepsOneRow ==
    \A b \in bans :
        ~b.is_active
        => \A a \in BanArgs :
              ArgsKey(a) = KeyOf(b)
              => LET out == BanCall(a)
                 IN  /\ out.result.status = "success"
                     /\ out.result.reactivated
                     /\ out.result.ban.id = b.id
                     /\ Cardinality(RowsOf(out.bans, KeyOf(b))) = 1
                     /\ \A r \in RowsOf(out.bans, KeyOf(b)) : r.is_active

\* C2 witness: ban_user, a full unban_user and ban_user again, all on one
\* row, the last call reporting reactivated = true.
C2_Witness ==
    /\ Len(audit_log) = 3
    /\ audit_log[1].action_type = "ban_user" /\ audit_log[1].metadata.created
    /\ audit_log[2].action_type = "unban_user"
    /\ audit_log[3].action_type = "ban_user"
    /\ audit_log[2].metadata.ban_id = audit_log[1].metadata.ban_id
    /\ audit_log[3].metadata.ban_id = audit_log[1].metadata.ban_id
    /\ result.op = "ban_user" /\ result.reactivated
    /\ Cardinality(bans) = 1
    /\ \A b \in bans : b.is_active

\* A row to insert duplicates the key of an active ban of the table.
DuplicatesActive(a) ==
    \E b \in bans :
        /\ b.is_active /\ b.user = a.user /\ b.scope = a.scope
        /\ IF a.scope = "course"
           THEN a.course_id # None /\ b.course_id = a.course_id
           ELSE a.org_key # None /\ b.org_key = a.org_key

\* C3 (one active ban per key): in every state reached by ban_user and
\* unban_user calls no two active bans share (user, course_id) at course
\* scope or (user, org_key) at organization scope; inserting an active row
\* that duplicates the key of an active ban is rejected with IntegrityError
\* and changes nothing; inserting an inactive row is always accepted,
\* whatever rows the key already has.
C3_OneActiveBanPerKey ==
    /\ \A x \in bans : \A y \in bans :
          (x.is_active /\ y.is_active /\ KeyOf(x) = KeyOf(y)) => x.id = y.id
    /\ \A a \in CreateArgs :
          LET out == CreateCall(a)
          IN  IF a.is_active /\ DuplicatesActive(a)
              THEN /\ out.result.error = "IntegrityError"
                   /\ out.bans = bans
              ELSE /\ out.result.status = "success"
                   /\ Cardinality(out.bans) = Cardinality(bans) + 1

\* C3 witness: a key that was banned, unbanned and banned again (one active
\* row) next to a key whose ban is inactive.
C3_Witness ==
    /\ \E x \in bans : x.is_active /\ x.banned_at > 1
    /\ \E y \in bans : ~y.is_active
    /\ Len(audit_log) >= 3

\* A ban covers a course: a course ban its own course, an organization ban
\* every course of its organization.
Covers(b, course_id) ==
    IF b.scope = "course" THEN b.course_id = course_id
    ELSE b.org_key = CourseKeyOrg(course_id)

\* The ban has an exception for the course.
HasException(b, course_id) ==
    \E e \in exceptions : e.ban = b.id /\ e.course_id = course_id

\* The active bans of a user at one scope.
ActiveBans(user, scope) ==
    {b \in bans : b.user = user /\ b.scope = scope /\ b.is_active}

\* C4 (an exception grants no immunity from a course ban), as claimed: a
\* user with an active organization ban that has an exception for course
\* C1, and with an active course ban on C1, is banned in C1.
C4_ExceptionGrantsNoImmunity ==
    \A u \in Users : \A c \in Courses :
        (/\ \E o \in ActiveBans(u, "organization") :
                Covers(o, c) /\ HasException(o, c)
         /\ \E b \in ActiveBans(u, "course") : Covers(b, c))
        => is_user_banned(u, c, TRUE)

\* C5 (organization ban precedence): an active organization ban with no
\* exception for a course of its organization bans the user in that course;
\* and a user whose only active ban is that organization ban is not banned
\* in the courses of other organizations.
C5_OrgBanPrecedence ==
    \A u \in Users : \A o \in ActiveBans(u, "organization") :
        \A c \in Courses :
            /\ (Covers(o, c) /\ ~HasException(o, c))
                  => is_user_banned(u, c, TRUE)
            /\ (~Covers(o, c)
                /\ ActiveBans(u, "organization") = {o}
                /\ ActiveBans(u, "course") = {})
                  => ~is_user_banned(u, c, TRUE)

\* C5 witness: the user's only ban is an organization ban on O1 without
\* exceptions, set by ban_user.
C5_Witness ==
    /\ result.op = "ban_user" /\ result.status = "success"
    /\ result.ban.scope = "organization" /\ result.ban.org_key = "O1"
    /\ bans = {result.ban}
    /\ exceptions = {}
    /\ is_user_banned("u1", "O1+C1", TRUE)
    /\ is_user_banned("u1", "O1+C2", TRUE)
    /\ ~is_user_banned("u1", "O2+C3", TRUE)

\* C6 (an exception is local to its course): for a user without active
\* course bans, an exception of an active organization ban for a course C1
\* of that organization lifts the ban in C1 and in no other course of the
\* organization that has no exception of its own.
C6_ExceptionIsLocal ==
    \A u \in Users : \A o \in ActiveBans(u, "organization") :
        \A c1 \in Courses :
            (Covers(o, c1) /\ HasException(o, c1)
             /\ ActiveBans(u, "course") = {})
            => /\ ~is_user_banned(u, c1, TRUE)
               /\ \A c2 \in Courses :
                     (c2 # c1 /\ Covers(o, c2) /\ ~HasException(o, c2))
                     => is_user_banned(u, c2, TRUE)

\* C6 witness: unban_user has just created the exception for O1+C1 of an
\* organization ban on O1; the user has no course ban, O1+C2 has no exception.
C6_Witness ==
    /\ result.op = "unban_user" /\ result.exception_created
    /\ result.ban.org_key = "O1" /\ result.ban.is_active
    /\ LastEntry.course_id = "O1+C1"
    /\ HasException(result.ban, "O1+C1")
    /\ ~HasException(result.ban, "O1+C2")
    /\ ActiveBans(result.ban.user, "course") = {}
    /\ ~is_user_banned(result.ban.user, "O1+C1", TRUE)
    /\ is_user_banned(result.ban.user, "O1+C2", TRUE)

\* The row of the table with a given id.
BanById(id) == CHOOSE b \in bans : b.id = id

\* C7 (unban branching): every unban_user call that succeeds resolved an
\* active ban; for an organization ban with a course_id it leaves the tables
\* of bans as they are, returns the ban unchanged with exception_created =
\* true, and the (ban, course_id) exception exists exactly once afterwards,
\* created if it was not there; in every other case no exception is
\* touched, exception_created is false and the ban is deactivated.
C7_UnbanBranching ==
    \A a \in UnbanArgs :
        LET out == UnbanCall(a)
        IN  out.result.status = "success"
            => LET ban == BanById(out.result.ban.id)
                   pair == {e \in out.exceptions :
                               e.ban = ban.id /\ e.course_id = a.course_id}
               IN  /\ ban \in bans /\ ban.is_active
                   /\ IF ban.scope = "organization" /\ a.course_id # None
                      THEN /\ out.result.exception_created
                           /\ out.bans = bans
                           /\ out.result.ban = ban
                           /\ Cardinality(pair) = 1
                           /\ \A e \in pair : e.id = out.result.exception
                           /\ exceptions \subseteq out.exceptions
                           /\ out.exceptions \ exceptions \subseteq pair
                      ELSE /\ ~out.result.exception_created
                           /\ out.exceptions = exceptions
                           /\ \E r \in out.bans :
                                 /\ r.id = ban.id /\ ~r.is_active
                                 /\ out.bans \ {r} = bans \ {ban}

\* C7 witness: unban_user with a course_id on an organization ban returned
\* exception_created = true, the ban still active and never unbanned.
C7_Witness ==
    /\ result.op = "unban_user" /\ result.status = "success"
    /\ result.exception_created
    /\ result.ban \in bans
    /\ result.ban.scope = "organization" /\ result.ban.is_active
    /\ result.ban.unbanned_at = 0 /\ result.ban.unbanned_by = None
    /\ \E e \in exceptions : e.id = result.exception /\ e.ban = result.ban.id

\* C8 (full unban): an unban_user call that takes the full-unban branch
\* keeps every row of the table and changes only the resolved one: it gets
\* is_active = false, unbanned_at = the time of the call and unbanned_by =
\* the moderator; and in the state after a full unban, the user is banned in
\* a course the ban covered only if another active ban of the user covers it.
C8_FullUnban ==
    /\ \A a \in UnbanArgs :
          LET out == UnbanCall(a)
          IN  (out.result.status = "success" /\ ~out.result.exception_created)
              => LET ban == BanById(out.result.ban.id)
                     row == [ban EXCEPT !.is_active = FALSE, !.unbanned_at = now,
                                        !.unbanned_by = a.caller[1]]
                 IN  /\ out.bans = (bans \ {ban}) \cup {row}
                     /\ Cardinality(out.bans) = Cardinality(bans)
                     /\ out.result.ban = row
                     /\ row.unbanned_at # 0 /\ row.unbanned_by # None
    /\ (result.op = "unban_user" /\ result.status = "success"
        /\ ~result.exception_created)
       => /\ result.ban \in bans /\ ~result.ban.is_active
          /\ \A c \in Courses :
                (Covers(result.ban, c) /\ is_user_banned(result.ban.user, c, TRUE))
                => \E b \in bans : /\ b.id # result.ban.id
                                   /\ b.user = result.ban.user
                                   /\ b.is_active /\ Covers(b, c)

\* C8 witness: a course ban was fully unbanned; its row is kept, inactive and
\* stamped, and the user is no longer banned in the course.
C8_Witness ==
    /\ result.op = "unban_user" /\ result.status = "success"
    /\ ~result.exception_created
    /\ result.ban.scope = "course"
    /\ result.ban \in bans /\ ~result.ban.is_active
    /\ result.ban.unbanned_at # 0 /\ result.ban.unbanned_by = "m2"
    /\ ~is_user_banned(result.ban.user, result.ban.course_id, TRUE)

\* An active ban matches the arguments of an unban_user call: the ban with
\* the given ban_id, or else a ban of the given user, of the given scope if
\* one is given, and on the given course if the scope given is 'course'.
Matches(b, a) ==
    /\ b.is_active
    /\ IF a.ban_id # 0 THEN b.id = a.ban_id
       ELSE /\ b.user = a.user
            /\ a.scope # None => b.scope = a.scope
            /\ (a.scope = "course" /\ a.course_id # None)
                  => b.course_id = a.course_id

\* The errors unban_user raises when its lookup finds no ban.
NotFoundErrors ==
    {"ValueError: Active ban with id not found",
     "ValueError: No active ban found for user"}

C10_OneAuditEntryPerCall ==
    [][/\ result'.status = "success"
          => /\ Len(audit_log') = Len(audit_log) + 1
             /\ SubSeq(audit_log', 1, Len(audit_log)) = audit_log
       /\ result'.status = "error" => audit_log' = audit_log]_vars

\* C10 witness: a new ban, an exception and a full unban, one entry each.
C10_Witness ==
    /\ Len(audit_log) = 3
    /\ audit_log[1].action_type = "ban_user"
    /\ audit_log[2].action_type = "ban_exception"
    /\ audit_log[3].action_type = "unban_user"
    /\ result.status = "success"

\* C11 (audit action types), as claimed: the entry ban_user writes has action
\* type ban_reactivate when the call reactivated an inactive ban and ban_user
\* otherwise; the entry unban_user writes has action type ban_exception on
\* the exception branch and unban_user on the full-unban branch.
C11_AuditActionTypes ==
    (result.status = "success" /\ result.op \in {"ban_user", "unban_user"})
    => LastEntry.action_type =
          IF result.op = "ban_user"
          THEN IF result.reactivated THEN "ban_reactivate" ELSE "ban_user"
          ELSE IF result.exception_created THEN "ban_exception"
               ELSE "unban_user"

\* The audit log entries about a ban: its ban_user and unban_user entries.
BanEntries(id) ==
    {i \in 1 .. Len(audit_log) :
        /\ audit_log[i].action_type \in {"ban_user", "unban_user"}
        /\ audit_log[i].metadata.ban_id = id}

\* The greatest element of a non-empty set of numbers.
Latest(idx) == CHOOSE i \in idx : \A j \in idx : j <= i

\* C12 (all-or-nothing): in every committed state, also after an audit write
\* that failed, the tables and the audit log agree: every ban row has an
\* entry, a row is active exactly when its latest ban / unban entry is a
\* ban, every exception row has its ban_exception entry, and every entry is
\* about a row that exists.
C12_AllOrNothing ==
    /\ \A b \in bans :
          /\ BanEntries(b.id) # {}
          /\ b.is_active
                <=> audit_log[Latest(BanEntries(b.id))].action_type = "ban_user"
    /\ \A e \in exceptions :
          \E i \in 1 .. Len(audit_log) :
              /\ audit_log[i].action_type = "ban_exception"
              /\ audit_log[i].metadata.exception_id = e.id
              /\ audit_log[i].metadata.ban_id = e.ban
    /\ \A i \in 1 .. Len(audit_log) :
          /\ \E b \in bans : b.id = audit_log[i].metadata.ban_id
          /\ audit_log[i].action_type = "ban_exception"
                => \E e \in exceptions : e.id = audit_log[i].metadata.exception_id

\* C12 witness: the audit write of an unban_user call has just failed; the
\* ban it was deactivating is still active and the log has no unban entry.
C12_Witness ==
    /\ result.op = "unban_user" /\ result.error = "DatabaseError"
    /\ ~txn.open
    /\ Len(audit_log) = 1
    /\ \E b \in bans : b.is_active /\ b.unbanned_at = 0

\* C13 (audit writes are best-effort), as claimed: when the audit write of a
\* call fails, the call still returns successfully and its ban / exception
\* write takes effect.
C13_AuditBestEffort ==
    [][(txn.open /\ ~txn'.open /\ audit_log' = audit_log)
       => /\ result'.status = "success"
          /\ bans' = txn.out.bans
          /\ exceptions' = txn.out.exceptions]_vars

EntriesNotAbout(u, log) ==
    LET RECURSIVE Others(_)
        Others(l) ==
            IF l = <<>> THEN <<>>
            ELSE IF Head(l).target_user = u THEN Others(Tail(l))
                 ELSE <<Head(l)>> \o Others(Tail(l))
    IN  Others(log)

\* The fields of an entry that the admin site cannot edit.
ReadOnlyFields(e) ==
    [e EXCEPT !.moderator_override = FALSE, !.moderator = None,
              !.override_reason = None]

C18_NoOrphanExceptions ==
    \A e \in exceptions : \E b \in bans : b.id = e.ban

\* C18 witness: a ban that had an exception has just been deleted, and no
\* exception row references it.
C18_Witness ==
    /\ result.op = "delete_ban"
    /\ result.exception > 0
    /\ result.ban \notin bans
    /\ \A e \in exceptions : e.ban # result.ban.id

\* unban_user by ban_id with a course_id, as a record of arguments.
UnbanById(id, course_id) ==
    [ban_id |-> id, user |-> None, caller |-> <<"m2", "">>,
     course_id |-> course_id, scope |-> None]

C17_OneExceptionPerBanCourse ==
    /\ \A e1 \in exceptions : \A e2 \in exceptions :
          (e1.ban = e2.ban /\ e1.course_id = e2.course_id) => e1 = e2
    /\ \A e \in exceptions :
          BanById(e.ban).is_active
          => LET out == UnbanCall(UnbanById(e.ban, e.course_id))
             IN  /\ out.result.status = "success"
                 /\ out.result.exception_created
                 /\ out.result.exception = e.id
                 /\ out.exceptions = exceptions

\* C17 witness: unban_user was repeated with the same organization ban and
\* course: the last two audit entries are about the same exception, the
\* second one reusing it.
C17_Witness ==
    /\ Len(audit_log) >= 2
    /\ result.op = "unban_user" /\ result.status = "success"
    /\ LastEntry.action_type = "ban_exception"
    /\ ~LastEntry.metadata.exception_created
    /\ audit_log[Len(audit_log) - 1].action_type = "ban_exception"
    /\ audit_log[Len(audit_log) - 1].metadata.exception_id
          = LastEntry.metadata.exception_id
    /\ Cardinality(exceptions) = 1

\* C19 (get_banned_users and exceptions), as claimed: an active organization
\* ban is listed by get_banned_users(course_id=C), for a course C of its
\* organization, exactly when it has no exception for C.
C19_BannedUsersExcludeExceptions ==
    \A b \in bans : \A c \in Courses :
        (b.is_active /\ b.scope = "organization" /\ Covers(b, c))
        => (SerializeBan(b) \in get_banned_users(c, None, FALSE, None)
               <=> ~HasException(b, c))

\* The content ids a call supplies, thread_id first.
SuppliedIds(call) ==
    (IF call.thread_id # "" THEN <<call.thread_id>> ELSE <<>>)
    \o (IF call.comment_id # "" THEN <<call.comment_id>> ELSE <<>>)

\* The item with the given id was flagged: thread_id as a thread or else as a
\* comment, comment_id as a comment.
WasFlagged(call, id) ==
    IF id = call.thread_id
    THEN call.flag_thread \/ call.flag_thread_as_comment
    ELSE call.flag_comment

ActiveForCall(p) ==
    {b \in RaceLookup(procs[p].a) : b.is_active}

\* C15: for every interleaving of two concurrent ban_user calls on the same
\* key, no call waits forever for the other, and once both have returned both
\* have succeeded on the same row, which is the only active row of the key: a
\* call whose INSERT lost the race returns the row of the winner, not created,
\* instead of raising.
C15_ConcurrentBansConverge ==
    /\ Running # {} => \E p \in Running : ENABLED RaceStep(p)
    /\ (\A p \in Procs : procs[p].pc = "done") =>
          /\ \A p \in Procs :
                /\ procs[p].status = "success"
                /\ Cardinality(ActiveForCall(p)) = 1
                /\ \A b \in ActiveForCall(p) : b.id = procs[p].ban.id
                /\ procs[p].conflict => ~procs[p].created
          /\ Cardinality({p \in Procs : procs[p].created}) <= 1

\* Both calls have returned and one of them lost the insert race.
C15_Witness ==
    /\ \A p \in Procs : procs[p].pc = "done" /\ procs[p].status = "success"
    /\ \E p \in Procs : procs[p].conflict
    /\ \E p \in Procs : procs[p].created


\* C21 (reactivation overwrites in place), as claimed: after a ban_user call
\* that reactivated an inactive ban, the row is active, carries the moderator
\* and the time of the call and no unban fields, and its reason is the reason
\* of the call (or the default text of a new ban when the call gave none),
\* never the reason of the earlier ban.
C21_ReactivationOverwrites ==
    (result.op = "ban_user" /\ result.status = "success" /\ result.reactivated)
    => LET row == BanById(result.ban.id)
       IN  /\ row.is_active
           /\ row.banned_by = LastEntry.moderator
           /\ row.banned_at = now - 1
           /\ row.unbanned_at = 0
           /\ row.unbanned_by = None
           /\ row.reason \in {LastEntry.reason,
                              OrDefault(LastEntry.reason, "No reason provided")}


\* C22 (create-ban endpoint), as claimed: the response to a POST whose body
\* passes BanUserSerializer validation is 201 with the record of an active
\* ban of the user, which is in the table, when user_id matches an account,
\* and 404 when it matches none.
C22_CreateBanEndpoint ==
    (result.op = "BanUserAPIView.post" /\ BanUserSerializer_is_valid(result.request))
    => IF result.request.user_id \in users
       THEN /\ result.http = 201
            /\ result.data \in bans
            /\ result.data.is_active
            /\ result.data.user = result.request.user_id
       ELSE result.http = 404

\* C23 (get-ban-by-id endpoint), as claimed: the response to a GET with a
\* positive ban_id is 200 with the ban record when a ban has the id, and 404
\* when none has.
C23_BanDetailEndpoint ==
    (result.op = "BanDetailAPIView.get" /\ result.request # 0)
    => IF \E b \in bans : b.id = result.request
       THEN result.http = 200 /\ result.data = BanById(result.request)
       ELSE result.http = 404


\* The moderate_and_flag_content call has returned or raised.
AIReturned == ai.pc = "returned"

\* C24 (flagging failure is reported), as claimed: when the content is
\* classified as spam and backend.flag_content_as_spam raises, the call
\* returns actions_taken = ['no_action'] with flagged false; and whenever the
\* returned actions_taken contains 'flagged', the backend did flag the
\* content.
C24_FlaggedOnlyWhenFlagged ==
    (AIReturned /\ ai.result.is_spam)
    => /\ ai.call.flag_content_as_spam # "ok"
             => /\ ai.result.raised = None
                /\ ai.result.actions_taken = <<"no_action">>
                /\ ~ai.result.flagged
       /\ (\E i \in DOMAIN ai.result.actions_taken :
               ai.result.actions_taken[i] = "flagged")
             => ai.result.spam_flagged

\* The upstream answers the claim lists: a timeout, an error status, a body
\* that is not JSON, JSON that is an empty list or not a list, and a first
\* item whose content is not a JSON object.
BadUpstream(call) ==
    \/ call.upstream.kind \in {"timeout", "http_error"}
    \/ LET data == json_loads(call.upstream.body)
       IN  \/ ~data.ok
           \/ data.value.type # "list"
           \/ Len(data.value.items) = 0
           \/ /\ data.value.items[1].type = "dict"
              /\ LET content == json_loads(DictGet(data.value.items[1], "content", ""))
                 IN  ~content.ok \/ content.value.type # "dict"

\* C25 (the client never raises on a bad upstream answer), as claimed: with
\* moderation enabled and any of the bad upstream answers, the call returns
\* the not-spam / no_action result, flags nothing and writes no audit entry.
C25_BadUpstreamTolerated ==
    (AIReturned /\ ai.call.enabled /\ BadUpstream(ai.call))
    => /\ ai.result.raised = None
       /\ ~ai.result.is_spam
       /\ ai.result.actions_taken = <<"no_action">>
       /\ ~ai.result.flagged
       /\ ~ai.result.spam_flagged
       /\ ~ai.result.audited
       /\ audit_log = <<>>


\* C26 (the resolver entry points agree), as claimed: for every user and
\* course, is_user_banned with check_org is true exactly when
\* get_user_ban_scope is not None, and the scope is 'organization' exactly
\* when the user has an active organization ban that covers the course and
\* has no exception for it.
C26_ResolversAgree ==
    \A u \in Users : \A c \in Courses :
        /\ is_user_banned(u, c, TRUE) <=> get_user_ban_scope(u, c) # None
        /\ get_user_ban_scope(u, c) = "organization"
              <=> \E o \in ActiveBans(u, "organization") :
                     Covers(o, c) /\ ~HasException(o, c)


\* C27 (an exception's course belongs to the organization of its ban), as
\* claimed: in every reachable state each exception is for a course of the
\* organization its parent ban is on.
C27_ExceptionCourseInBanOrg ==
    \A e \in exceptions :
        \A b \in bans :
            b.id = e.ban => CourseKeyOrg(e.course_id) = b.org_key


\* The user has an active course ban on the course.
CourseBanned(user, course_id) ==
    \E b \in ActiveBans(user, "course") : Covers(b, course_id)

\* C28 (exceptions outlive a full unban and the reactivation): a full unban
\* leaves every exception in place; and a ban_user call on the key of a
\* deactivated organization ban reactivates that same row and leaves every
\* exception in place, so that afterwards the user is not banned in the
\* courses the ban has an exception for and is banned in the other courses
\* of the organization (courses with a course ban of their own aside).
C28_ExceptionsOutliveReactivation ==
    [][/\ (result'.op = "unban_user" /\ result'.status = "success"
           /\ ~result'.exception_created)
          => exceptions' = exceptions
       /\ \A b \in bans :
             (/\ ~b.is_active
              /\ b.scope = "organization"
              /\ result'.op = "ban_user"
              /\ result'.status = "success"
              /\ KeyOf(result'.ban) = KeyOf(b))
             => /\ result'.reactivated
                /\ result'.ban.id = b.id
                /\ {r.id : r \in bans'} = {r.id : r \in bans}
                /\ exceptions' = exceptions
                /\ \A c \in Courses :
                      (Covers(b, c) /\ ~CourseBanned(b.user, c)')
                      => (is_user_banned(b.user, c, TRUE)' <=> ~HasException(b, c))
      ]_vars

\* C28 witness: an organization ban was reactivated with an exception
\* attached: the user is not banned in the excepted course and is banned in
\* another course of the organization.
C28_Witness ==
    /\ result.op = "ban_user"
    /\ result.reactivated
    /\ result.ban.scope = "organization"
    /\ \E c \in Courses : \E c2 \in Courses :
          /\ Covers(result.ban, c) /\ Covers(result.ban, c2)
          /\ HasException(result.ban, c)
          /\ ~is_user_banned(result.ban.user, c, TRUE)
          /\ is_user_banned(result.ban.user, c2, TRUE)


\* C29 (concurrent unbans), as claimed: a ban is never unbanned twice in a
\* row: between two unban_user entries of the audit log about the same ban
\* there is a ban_user entry that reactivated it, so that of two concurrent
\* unban_user calls on an active ban one deactivates it and the other finds
\* no active ban; and the row a call's save replaces is the row the call
\* read, never a row reactivated in between.
C29_UnbanOnce ==
    [][/\ \A i \in DOMAIN audit_log' : \A j \in DOMAIN audit_log' :
             (/\ i < j
              /\ audit_log'[i].action_type = "unban_user"
              /\ audit_log'[j].action_type = "unban_user"
              /\ audit_log'[i].metadata.ban_id = audit_log'[j].metadata.ban_id)
             => \E k \in (i + 1) .. (j - 1) :
                   /\ audit_log'[k].action_type = "ban_user"
                   /\ audit_log'[k].metadata.ban_id = audit_log'[i].metadata.ban_id
       /\ \A p \in Procs :
             (procs[p].pc = "audit" /\ procs'[p].pc = "done")
             => BanById(procs[p].ban.id) = procs[p].ban
      ]_vars


\* The comments of the thread that are not soft-deleted.
NotDeleted ==
    {c \in DOMAIN mongo.comments : mongo.comments[c].is_deleted # "True"}

\* C30 (comment_count under soft delete and restore), as claimed: after any
\* sequence of soft deletes and restores on the comments of a thread,
\* comment_count is the number of its comments that are not soft-deleted.
C30_CommentCountMatches ==
    mongo.thread # None => mongo.comment_count = Cardinality(NotDeleted)

=============================================================================
